---- MODULE Spec2Model ----
(***************************************************************************)
(* Model of src/src/App.jsx: the App component's session state, its local  *)
(* task list and the asynchronous fetch / insert / update / delete calls   *)
(* it makes against the remote "tasks" table.  Every async function is     *)
(* split at its await: one action for the part that runs up to the await   *)
(* (it puts a request in flight), one for the continuation that processes  *)
(* the response.  Between the two the backend answers the request.         *)
(***************************************************************************)
EXTENDS Integers, Sequences, FiniteSets, Bags, TLC

\* ---- bounds ----
\* clicks that issue a request plus session-change notifications in one
\* behaviour; it also caps the rows inserted, the requests in flight and
\* the session versions
MaxEvents == 3

Users == {"A", "B"}
None == "none"

\* JS null session (useState(null)).  ver tells the session objects of one
\* user apart: 0 for the session stored before startup, the number of the
\* event that produced it for every later one.
NullSession == [user |-> None, ver |-> 0]

\* session?.user?.id
UserId(s) == s.user

\* texts typed in the "New task..." input (it starts empty): whitespace
\* only, and a word padded with whitespace on both sides
Titles == {<<" ">>, <<" ", "a", " ">>}

\* ---- String.prototype.trim ----
IsSpace(ch) == ch = " "

RECURSIVE TrimStart(_)
TrimStart(s) ==
    IF s # <<>> /\ IsSpace(Head(s)) THEN TrimStart(Tail(s)) ELSE s

RECURSIVE TrimEnd(_)
TrimEnd(s) ==
    IF s # <<>> /\ IsSpace(s[Len(s)])
    THEN TrimEnd(SubSeq(s, 1, Len(s) - 1))
    ELSE s

Trim(s) == TrimEnd(TrimStart(s))

\* ---- requests in flight ----
\* op: select | insert | update | delete for the tasks table, signOut | otp
\* for the calls to the auth provider; stage: sent | ok (answered with data).
\* user/title/id/c are the values the async function closed over, data is
\* the response payload.  typed and seen are history fields: the raw input
\* text at the call, and the inserts already confirmed when a select was
\* issued.
NoReq ==
    [op |-> "none", user |-> None, title |-> <<>>, id |-> 0, c |-> FALSE,
     stage |-> "none", data |-> <<>>, typed |-> <<>>, seen |-> {}]

VARIABLES
    session,      \* useState(null): the client's session
    tasks,        \* useState([]): the local task list
    newTask,      \* useState(''): text of the add-task input
    otpSent,      \* useState(false): the "check your inbox" flag
    inflight,     \* bag of requests awaiting processing
    db,           \* the remote tasks table
    nextId,       \* next identifier / timestamp the backend assigns
    provSession,  \* the auth provider's current session
    events,       \* number of clicks and notifications so far
    startup,      \* the startup getSession() promise
    last,         \* history: the step just taken
    toggles,      \* history: consecutive successful toggles just processed
    added,        \* history: inserts whose success response was processed
    deleted       \* history: identifiers the backend has deleted

vars ==
    <<session, tasks, newTask, otpSent, inflight, db, nextId, provSession,
      events, startup, last, toggles, added, deleted>>

\* the requests in flight with one request added, removed, replaced
Sent(bag, r) == bag (+) SetToBag({r})
Done(bag, r) == bag (-) SetToBag({r})
Answered(bag, r, a) == (bag (-) SetToBag({r})) (+) SetToBag({a})

\* what the history variable last keeps of a step: its kind and the user,
\* task identifier, completion argument and history field seen of the
\* request it is about
Step(kind, req) ==
    [kind |-> kind, user |-> req.user, id |-> req.id, c |-> req.c,
     seen |-> req.seen]

\* completion flag of the first record with this identifier, as a string
FlagOf(list, id) ==
    IF \E i \in DOMAIN list : list[i].id = id
    THEN LET i == CHOOSE j \in DOMAIN list :
                    list[j].id = id /\ \A k \in 1..(j - 1) : list[k].id # id
         IN IF list[i].is_completed THEN "true" ELSE "false"
    ELSE "absent"

\* ---- the remote table (select / insert / update / delete) ----
RECURSIVE OrderDesc(_)
OrderDesc(S) ==
    IF S = {} THEN <<>>
    ELSE LET m == CHOOSE r \in S : \A q \in S : q.created_at <= r.created_at
         IN <<m>> \o OrderDesc(S \ {m})

\* select * where user_id = ? order by created_at desc
SelectTasks(table, userId) ==
    OrderDesc({r \in table : r.user_id = userId})

\* insert [{title, user_id}] ... select().single()
InsertRow(title, userId, n) ==
    [id |-> n, title |-> title, user_id |-> userId, is_completed |-> FALSE,
     created_at |-> n]

\* update({is_completed: !isCompleted}).eq('id', id)
UpdateRows(table, id, isCompleted) ==
    {IF r.id = id THEN [r EXCEPT !.is_completed = ~isCompleted] ELSE r :
        r \in table}

\* delete().eq('id', id)
DeleteRows(table, id) == {r \in table : r.id # id}

\* ---- state updates of the response handlers ----
\* variant: the error branch falls through to setTasks(data || [])
FetchResultClear(prev, data, error) == IF error THEN <<>> ELSE data

\* fetchTasks: if (error) console.error(...) else setTasks(data || [])
FetchResult(prev, data, error) == IF error THEN prev ELSE data

\* variant: the record is appended, [...prev, data]
AddResultAppend(prev, data) == prev \o <<data>>

\* addTask: setTasks((prev) => [data, ...prev])
AddResult(prev, data) == <<data>> \o prev

\* variant: the map flips every record, without the t.id === id test
ToggleResultAll(prev, id, isCompleted) ==
    [i \in DOMAIN prev |-> [prev[i] EXCEPT !.is_completed = ~isCompleted]]

\* toggleTask: prev.map(t => t.id === id ? {...t, is_completed: !isCompleted} : t)
ToggleResult(prev, id, isCompleted) ==
    [i \in DOMAIN prev |->
        IF prev[i].id = id
        THEN [prev[i] EXCEPT !.is_completed = ~isCompleted]
        ELSE prev[i]]

\* variant: only the first matching record is removed (findIndex + splice)
RECURSIVE DeleteResultFirst(_, _)
DeleteResultFirst(prev, id) ==
    IF prev = <<>> THEN <<>>
    ELSE IF Head(prev).id # id
         THEN <<Head(prev)>> \o DeleteResultFirst(Tail(prev), id)
         ELSE Tail(prev)

\* deleteTask: prev.filter(t => t.id !== id)
RECURSIVE DeleteResult(_, _)
DeleteResult(prev, id) ==
    IF prev = <<>> THEN <<>>
    ELSE IF Head(prev).id # id
         THEN <<Head(prev)>> \o DeleteResult(Tail(prev), id)
         ELSE DeleteResult(Tail(prev), id)

\* variant: if (!newTask) return;
IsBlankUntrimmed(text) == text = <<>>

\* addTask: if (!newTask.trim()) return;
IsBlank(text) == Trim(text) = <<>>

\* variant: the second early return, if (!userId) return, is missing
AddTaskNoUserCheck(text, userId) == IsBlank(text)

\* addTask: if (!newTask.trim()) return; ... if (!userId) return;
AddTaskReturnsEarly(text, userId) == IsBlank(text) \/ userId = None

\* the [session] effect on the list: setTasks([]) unless the session has a
\* user (then only fetchTasks is called)
TasksAfterSession(s, prev) == IF UserId(s) # None THEN prev ELSE <<>>

\* variant: setOtpSent(true) runs after the if, on both branches
OtpResultAlways(prev, error) == TRUE

\* signInWithEmail: if (error) console.error(...) else setOtpSent(true)
OtpResult(prev, error) == IF error THEN prev ELSE TRUE

\* variant: insert([{ title: newTask, user_id: userId }])
InsertPayloadRaw(text, userId) == [title |-> text, user_id |-> userId]

\* addTask: insert([{ title: newTask.trim(), user_id: userId }])
InsertPayload(text, userId) == [title |-> Trim(text), user_id |-> userId]

\* ---- initial state ----
Init ==
    /\ session = NullSession
    /\ tasks = <<>>
    /\ newTask = <<>>
    /\ otpSent = FALSE
    /\ inflight = EmptyBag
    /\ db = {}
    /\ nextId = 1
    /\ \E s \in {NullSession, [user |-> "A", ver |-> 0]} :
          /\ provSession = s
          /\ startup = [pending |-> TRUE, val |-> s]
    /\ events = 0
    /\ last = Step("init", NoReq)
    /\ toggles = <<>>
    /\ added = {}
    /\ deleted = {}

\* ---- session manager ----
\* setSession(s) followed by the [session] effect: fetchTasks(user id) when
\* the new session has a user, setTasks([]) otherwise.  A setSession with
\* the value already held re-renders nothing and runs no effect.  bag is
\* the requests in flight once the caller's own request is accounted for,
\* kind the name of the step in the history variable.
SessionEffect(s, bag, kind) ==
    IF s = session
    THEN /\ UNCHANGED <<session, tasks, toggles>>
         /\ inflight' = bag
         /\ last' = Step(kind, NoReq)
    ELSE /\ session' = s
         /\ tasks' = TasksAfterSession(s, tasks)
         /\ toggles' = IF UserId(s) # None THEN toggles ELSE <<>>
         /\ IF UserId(s) # None
            THEN LET r == [NoReq EXCEPT !.op = "select", !.user = UserId(s),
                                        !.stage = "sent", !.seen = added]
                 IN /\ inflight' = Sent(bag, r)
                    /\ last' = Step(kind, NoReq)
            ELSE /\ inflight' = bag
                 /\ last' = Step(kind, NoReq)

SetSession(s) == SessionEffect(s, inflight, "session")

\* supabase.auth.getSession().then(({data: {session}}) => setSession(session))
GetSessionResolved ==
    /\ startup.pending
    /\ startup' = [startup EXCEPT !.pending = FALSE]
    /\ SetSession(startup.val)
    /\ UNCHANGED <<newTask, otpSent, db, nextId, provSession, events, added,
                   deleted>>

\* getSession() reads the provider's session at some moment before its
\* promise resolves
GetSessionRead ==
    /\ startup.pending
    /\ startup.val # provSession
    /\ startup' = [startup EXCEPT !.val = provSession]
    /\ last' = Step("getSession", NoReq)
    /\ UNCHANGED <<session, tasks, newTask, otpSent, inflight, db, nextId,
                   provSession, events, toggles, added, deleted>>

\* onAuthStateChange((_event, session) => setSession(session))
AuthStateChange(s) ==
    /\ events < MaxEvents
    /\ events' = events + 1
    /\ provSession' = s
    /\ SetSession(s)
    /\ UNCHANGED <<newTask, otpSent, db, nextId, startup, added, deleted>>

\* a sign-in of the user already signed in replaces the session object as
\* a token refresh does, so it is left to TokenRefreshed
SignedIn(u) ==
    /\ u # provSession.user
    /\ AuthStateChange([user |-> u, ver |-> events + 1])

TokenRefreshed ==
    /\ provSession # NullSession
    /\ AuthStateChange([user |-> provSession.user, ver |-> events + 1])

SignedOut ==
    /\ provSession # NullSession
    /\ AuthStateChange(NullSession)

\* ---- auth actions ----
\* signOut, lines 58-59: the button of the logged-in view
SignOut ==
    /\ session # NullSession
    /\ events < MaxEvents
    /\ events' = events + 1
    /\ inflight' = Sent(inflight,
           [NoReq EXCEPT !.op = "signOut", !.stage = "sent"])
    /\ last' = Step("signOut", NoReq)
    /\ UNCHANGED <<session, tasks, newTask, otpSent, db, nextId, provSession,
                   startup, toggles, added, deleted>>

\* supabase.auth.signOut() succeeds: the provider drops its session and
\* notifies the listener with null before the await returns; line 60 then
\* has nothing to log
SignOutOk(r) ==
    /\ r.op = "signOut"
    /\ provSession' = NullSession
    /\ SessionEffect(NullSession, Done(inflight, r), "signOutOk")
    /\ UNCHANGED <<newTask, otpSent, db, nextId, events, startup,
                   added, deleted>>

\* supabase.auth.signOut() returns an error: line 60 logs it
SignOutErr(r) ==
    /\ r.op = "signOut"
    /\ inflight' = Done(inflight, r)
    /\ last' = Step("signOutErr", NoReq)
    /\ UNCHANGED <<session, tasks, newTask, otpSent, db, nextId, provSession,
                   events, startup, toggles, added, deleted>>

\* signInWithEmail, lines 49-50: the button of the signed-out view.  The
\* address typed in the email field only travels to the provider, whose
\* answer is either "sent" or an error.
SignInWithEmail ==
    /\ session = NullSession
    /\ events < MaxEvents
    /\ events' = events + 1
    /\ inflight' = Sent(inflight, [NoReq EXCEPT !.op = "otp", !.stage = "sent"])
    /\ last' = Step("signInWithEmail", NoReq)
    /\ UNCHANGED <<session, tasks, newTask, otpSent, db, nextId, provSession,
                   startup, toggles, added, deleted>>

\* signInWithEmail, lines 51-55, for either answer of the provider
SignInWithEmailDone(r, error) ==
    /\ r.op = "otp"
    /\ otpSent' = OtpResult(otpSent, error)
    /\ inflight' = Done(inflight, r)
    /\ last' = Step(IF error THEN "otpErr" ELSE "otpOk", NoReq)
    /\ UNCHANGED <<session, tasks, newTask, db, nextId, provSession,
                   events, startup, toggles, added, deleted>>

\* ---- UI input ----
\* onChange={(e) => setNewTask(e.target.value)}
SetNewTask(text) ==
    /\ session # NullSession
    /\ text # newTask
    /\ newTask' = text
    /\ last' = Step("input", NoReq)
    /\ UNCHANGED <<session, tasks, otpSent, inflight, db, nextId,
                   provSession, events, startup, toggles, added,
                   deleted>>

\* ---- task store client: the part of each function before its await ----
\* addTask, lines 75-84
AddTask ==
    /\ IF AddTaskReturnsEarly(newTask, UserId(session))
       THEN /\ UNCHANGED <<inflight, events>>
            /\ last' = Step("addTask", NoReq)
       ELSE /\ events < MaxEvents
            /\ events' = events + 1
            /\ LET p == InsertPayload(newTask, UserId(session))
                   r == [NoReq EXCEPT !.op = "insert", !.user = p.user_id,
                                      !.title = p.title, !.stage = "sent",
                                      !.typed = newTask]
               IN /\ inflight' = Sent(inflight, r)
                  /\ last' = Step("addTask", NoReq)
    /\ UNCHANGED <<session, tasks, newTask, otpSent, db, nextId, provSession,
                   startup, toggles, added, deleted>>

\* onClick={() => toggleTask(task.id, task.is_completed)}, lines 94-98
ToggleTask(i) ==
    /\ session # NullSession
    /\ events < MaxEvents
    /\ events' = events + 1
    /\ LET r == [NoReq EXCEPT !.op = "update", !.id = tasks[i].id,
                              !.c = tasks[i].is_completed, !.stage = "sent"]
       IN /\ inflight' = Sent(inflight, r)
          /\ last' = Step("toggleTask", NoReq)
    /\ UNCHANGED <<session, tasks, newTask, otpSent, db, nextId, provSession,
                   startup, toggles, added, deleted>>

\* onClick={() => deleteTask(task.id)}, lines 111-112
DeleteTask(i) ==
    /\ session # NullSession
    /\ events < MaxEvents
    /\ events' = events + 1
    /\ LET r == [NoReq EXCEPT !.op = "delete", !.id = tasks[i].id,
                              !.stage = "sent"]
       IN /\ inflight' = Sent(inflight, r)
          /\ last' = Step("deleteTask", NoReq)
    /\ UNCHANGED <<session, tasks, newTask, otpSent, db, nextId, provSession,
                   startup, toggles, added, deleted>>

\* ---- the backend answers a request ----
BackendOk(r) ==
    /\ r.stage = "sent"
    /\ r.op \in {"select", "insert", "update", "delete"}
    /\ CASE r.op = "select" ->
              /\ inflight' = Answered(inflight, r,
                     [r EXCEPT !.stage = "ok",
                               !.data = SelectTasks(db, r.user)])
              /\ UNCHANGED <<db, nextId, deleted>>
         [] r.op = "insert" ->
              LET row == InsertRow(r.title, r.user, nextId) IN
              /\ db' = db \cup {row}
              /\ nextId' = nextId + 1
              /\ inflight' = Answered(inflight, r,
                     [r EXCEPT !.stage = "ok", !.data = <<row>>])
              /\ UNCHANGED deleted
         [] r.op = "update" ->
              /\ db' = UpdateRows(db, r.id, r.c)
              /\ inflight' = Answered(inflight, r, [r EXCEPT !.stage = "ok"])
              /\ UNCHANGED <<nextId, deleted>>
         [] r.op = "delete" ->
              /\ db' = DeleteRows(db, r.id)
              /\ deleted' = deleted \cup {r.id}
              /\ inflight' = Answered(inflight, r, [r EXCEPT !.stage = "ok"])
              /\ UNCHANGED nextId
    /\ last' = Step("backend", NoReq)
    /\ UNCHANGED <<session, tasks, newTask, otpSent, provSession, events,
                   startup, toggles, added>>

\* ---- task store client: the continuation after each await ----
\* error = FALSE: the continuation gets the {data} the backend produced.
\* error = TRUE: the request failed (network or backend), the table is as
\* it was and the continuation gets {error}.
\* fetchTasks, lines 71-72
FetchTasksDone(r, error) ==
    /\ r.op = "select" /\ r.stage = IF error THEN "sent" ELSE "ok"
    /\ tasks' = FetchResult(tasks, r.data, error)
    /\ toggles' = IF ~error THEN <<>> ELSE toggles
    /\ inflight' = Done(inflight, r)
    /\ last' = Step(IF ~error THEN "fetchOk" ELSE "fetchErr", r)
    /\ UNCHANGED <<session, newTask, otpSent, db, nextId, provSession, events,
                   startup, added, deleted>>

\* addTask, lines 86-91
AddTaskDone(r, error) ==
    /\ r.op = "insert" /\ r.stage = IF error THEN "sent" ELSE "ok"
    /\ IF error
       THEN UNCHANGED <<tasks, newTask, toggles, added>>
       ELSE /\ tasks' = AddResult(tasks, r.data[1])
            /\ newTask' = <<>>
            /\ toggles' = <<>>
            /\ added' = added \cup
                   {[id |-> r.data[1].id, typed |-> r.typed, user |-> r.user]}
    /\ inflight' = Done(inflight, r)
    /\ last' = IF ~error
               THEN Step("addOk", [r EXCEPT !.id = r.data[1].id])
               ELSE Step("addErr", r)
    /\ UNCHANGED <<session, otpSent, db, nextId, provSession, events, startup,
                   deleted>>

\* toggleTask, lines 100-108
ToggleTaskDone(r, error) ==
    /\ r.op = "update" /\ r.stage = IF error THEN "sent" ELSE "ok"
    /\ IF error
       THEN UNCHANGED <<tasks, toggles>>
       ELSE /\ tasks' = ToggleResult(tasks, r.id, r.c)
            /\ toggles' =
                   LET e == [id |-> r.id, c |-> r.c,
                             before |-> FlagOf(tasks, r.id)]
                   IN IF toggles = <<>> THEN <<e>>
                      ELSE <<toggles[Len(toggles)], e>>
    /\ inflight' = Done(inflight, r)
    /\ last' = Step(IF ~error THEN "toggleOk" ELSE "toggleErr", r)
    /\ UNCHANGED <<session, newTask, otpSent, db, nextId, provSession, events,
                   startup, added, deleted>>

\* deleteTask, lines 113-117
DeleteTaskDone(r, error) ==
    /\ r.op = "delete" /\ r.stage = IF error THEN "sent" ELSE "ok"
    /\ IF error
       THEN UNCHANGED <<tasks, toggles>>
       ELSE /\ tasks' = DeleteResult(tasks, r.id)
            /\ toggles' = <<>>
    /\ inflight' = Done(inflight, r)
    /\ last' = Step(IF ~error THEN "deleteOk" ELSE "deleteErr", r)
    /\ UNCHANGED <<session, newTask, otpSent, db, nextId, provSession, events,
                   startup, added, deleted>>

Next ==
    \/ GetSessionResolved
    \/ GetSessionRead
    \/ \E u \in Users : SignedIn(u)
    \/ TokenRefreshed
    \/ SignedOut
    \/ SignOut
    \/ \E r \in BagToSet(inflight) : SignOutOk(r)
    \/ \E r \in BagToSet(inflight) : SignOutErr(r)
    \/ SignInWithEmail
    \/ \E r \in BagToSet(inflight), error \in BOOLEAN :
           SignInWithEmailDone(r, error)
    \/ \E text \in Titles : SetNewTask(text)
    \/ AddTask
    \/ \E i \in DOMAIN tasks : ToggleTask(i)
    \/ \E i \in DOMAIN tasks : DeleteTask(i)
    \/ \E r \in BagToSet(inflight) : BackendOk(r)
    \/ \E r \in BagToSet(inflight), error \in BOOLEAN : FetchTasksDone(r, error)
    \/ \E r \in BagToSet(inflight), error \in BOOLEAN : AddTaskDone(r, error)
    \/ \E r \in BagToSet(inflight), error \in BOOLEAN : ToggleTaskDone(r, error)
    \/ \E r \in BagToSet(inflight), error \in BOOLEAN : DeleteTaskDone(r, error)

Spec == Init /\ [][Next]_vars

TypeOK ==
    /\ BagCardinality(inflight) <= MaxEvents + 1
    /\ nextId <= MaxEvents + 1
    /\ newTask \in Titles \cup {<<>>}
    /\ otpSent \in BOOLEAN
    /\ events <= MaxEvents
    /\ provSession.ver <= MaxEvents
(***************************************************************************)
(* Properties                                                              *)
(***************************************************************************)
ErrKinds == {"fetchErr", "addErr", "toggleErr", "deleteErr"}
OkKinds == {"fetchOk", "addOk", "toggleOk", "deleteOk"}

\* steps in which setSession runs: the listener or the startup query, and
\* the listener's notification of a successful sign-out
SessionKinds == {"session", "signOutOk"}

BoolStr(b) == IF b THEN "true" ELSE "false"

\* C1: when a successful fetchTasks response for user A is processed while
\* the session belongs to another user B, the result is discarded: the
\* local task list is left as it was.
C1_StaleFetchDiscarded ==
    [][(/\ last'.kind = "fetchOk"
        /\ UserId(session) \in Users
        /\ last'.user # UserId(session))
          => tasks' = tasks]_vars

\* C2: in every reachable state every task of the local list is owned by
\* the current session's user.
C2_OwnerIsSessionUser ==
    \A i \in DOMAIN tasks : tasks[i].user_id = UserId(session)

\* C3: every session change (to another user, to none, or a replacement on
\* refresh) invalidates the local list wholesale: right after the change no
\* task of the previous session is left in it.
C3_InvalidatedOnSessionChange ==
    [][session' # session => tasks' = <<>>]_vars

\* C4: a failure response of any store operation leaves the local list as
\* it was, and the list changes only in a step that processes a success
\* response or a session change.
C4_FailureLeavesList ==
    [][/\ last'.kind \in ErrKinds => tasks' = tasks
       /\ tasks' # tasks => last'.kind \in OkKinds \cup SessionKinds]_vars

C4_Witness ==
    /\ last.kind = "fetchErr"
    /\ tasks # <<>>

\* C5: addTask with a title that is empty after trimming, or with no
\* session user, issues no insert request and leaves the local list and
\* the input text unchanged.
C5_BlankAddIsNoop ==
    [][(last'.kind = "addTask"
          /\ (Trim(newTask) = <<>> \/ session = NullSession))
          => UNCHANGED <<inflight, events, tasks, newTask, db>>]_vars

C5_Witness ==
    /\ last.kind = "addTask"
    /\ newTask = <<" ">>
    /\ session # NullSession
    /\ tasks # <<>>

\* C6: when the success response of an insert is processed, the new local
\* list is the server-returned record followed by the list as it was just
\* before this step; the record carries the trimmed title, the user of the
\* call and the identifier and timestamp the server assigned.
C6_AddPrepends ==
    [][last'.kind = "addOk" =>
          \E r \in BagToSet(inflight) :
              /\ r.op = "insert" /\ r.stage = "ok"
              /\ inflight' = Done(inflight, r)
              /\ tasks' = <<r.data[1]>> \o tasks
              /\ Len(tasks') = Len(tasks) + 1
              /\ \A k \in DOMAIN tasks : tasks'[k + 1] = tasks[k]
              /\ tasks'[1].title = Trim(r.typed)
              /\ tasks'[1].user_id = r.user
              /\ tasks'[1].id = last'.id
              /\ tasks'[1].id < nextId
              /\ tasks'[1].created_at < nextId]_vars

C6_Witness ==
    /\ last.kind = "addOk"
    /\ Len(tasks) = 2
    /\ tasks[1].id = last.id
    /\ tasks[2].id # last.id

\* C7: when the success response of toggleTask(id, c) is processed, every
\* local record with identifier id gets completion flag NOT c and nothing
\* else changes: same length, same order, other records untouched.
C7_ToggleFlipsMatching ==
    [][last'.kind = "toggleOk" =>
          /\ Len(tasks') = Len(tasks)
          /\ \A i \in DOMAIN tasks :
                 tasks'[i] = IF tasks[i].id = last'.id
                             THEN [tasks[i] EXCEPT
                                      !.is_completed = ~last'.c]
                             ELSE tasks[i]]_vars

C7_Witness ==
    /\ last.kind = "toggleOk"
    /\ last.c = FALSE
    /\ Len(tasks) = 2
    /\ \E i, j \in DOMAIN tasks :
           /\ tasks[i].id = last.id /\ tasks[i].is_completed
           /\ tasks[j].id # last.id /\ ~tasks[j].is_completed

\* two successful toggles of one task processed one after the other, the
\* first one called with the flag the task then had
TwoToggles ==
    /\ Len(toggles) = 2
    /\ toggles[1].id = toggles[2].id
    /\ toggles[1].before = BoolStr(toggles[1].c)

\* C8: two successful toggleTask calls on the same task, starting from the
\* same initial state, return the task to its original completion value.
C8_ToggleTwiceRestores ==
    TwoToggles => FlagOf(tasks, toggles[1].id) = toggles[1].before

\* C9: when the success response of deleteTask(id) is processed, the local
\* list becomes the previous list without the records whose identifier is
\* id, the others in their previous order; if no record has that
\* identifier the list is unchanged.
C9_DeleteRemovesMatching ==
    [][last'.kind = "deleteOk" =>
          LET id == last'.id IN
          /\ tasks' = SelectSeq(tasks, LAMBDA t : t.id # id)
          /\ (\A i \in DOMAIN tasks : tasks[i].id # id) => tasks' = tasks]_vars

C9_Witness ==
    /\ last.kind = "deleteOk"
    /\ Len(tasks) = 1
    /\ tasks[1].id # last.id
    /\ last.id \in {a.id : a \in added}

\* C10: after a successful addTask(u, t), a later successful listTasks(u)
\* yields a local list that holds the added task, with title t trimmed and
\* owner u, unless the task has been deleted.
C10_RoundTrip ==
    last.kind = "fetchOk" =>
        \A a \in last.seen :
            (a.user = last.user /\ a.id \notin deleted) =>
                \E i \in DOMAIN tasks :
                    /\ tasks[i].id = a.id
                    /\ tasks[i].title = Trim(a.typed)
                    /\ tasks[i].user_id = a.user

C10_Witness ==
    /\ last.kind = "fetchOk"
    /\ \E a \in last.seen :
           /\ a.user = last.user
           /\ a.id \notin deleted
           /\ a.typed # Trim(a.typed)
           /\ \E i \in DOMAIN tasks : tasks[i].id = a.id
\* C11: in every reachable state the local list is ordered by creation
\* timestamp, newest first.
C11_NewestFirst ==
    \A i \in 1..(Len(tasks) - 1) :
        tasks[i].created_at >= tasks[i + 1].created_at

\* a toggle or delete request, from its issue until its response is processed
IsTaskOp(r) == r.op \in {"update", "delete"}

\* C12: at no time are two toggle/delete requests for the same task
\* identifier in flight together.
C12_OneRequestPerTask ==
    \A r \in BagToSet(inflight) :
        IsTaskOp(r) =>
            /\ CopiesIn(r, inflight) = 1
            /\ \A q \in BagToSet(inflight) :
                   (IsTaskOp(q) /\ q.id = r.id) => q = r

\* every issued request has been answered and its response processed
Quiescent ==
    /\ BagCardinality(inflight) = 0
    /\ ~startup.pending

\* C13: once every issued request has been answered, the local list holds
\* exactly the remote rows owned by the session's user, each with the
\* completion flag of the remote row.
C13_MirrorsRemote ==
    Quiescent =>
        {tasks[i] : i \in DOMAIN tasks} =
            {r \in db : r.user_id = UserId(session)}

\* C17: in every reachable state no two records of the local list have the
\* same task identifier.
C17_UniqueIds ==
    \A i, j \in DOMAIN tasks : i # j => tasks[i].id # tasks[j].id

\* C18: whenever the session is none the local list is empty, also when
\* responses of requests issued under the earlier session arrive.
C18_EmptyWhenSignedOut ==
    session = NullSession => tasks = <<>>

\* C19: once the startup getSession() has resolved, the session held by the
\* client is the most recent session the auth provider produced: the
\* startup result never replaces a newer session the listener delivered.
C19_SessionIsLatest ==
    ~startup.pending => session = provSession
\* the task-table requests issued in this step
IssuedNow ==
    {r \in BagToSet(inflight') :
        /\ r.stage = "sent"
        /\ r.op \in {"select", "insert", "update", "delete"}
        /\ CopiesIn(r, inflight') > CopiesIn(r, inflight)}

\* C14: a select request is issued only by a session's arrival and carries
\* that session's user; an insert request carries the user of the session
\* current at the call; no task request is issued while there is no
\* session.
C14_RequestsForSessionUser ==
    [][\A r \in IssuedNow :
           /\ session' # NullSession
           /\ r.op = "select" =>
                  (session' # session /\ r.user = UserId(session'))
           /\ r.op # "select" => session' = session
           /\ r.op = "insert" => r.user = UserId(session)]_vars

C14_Witness ==
    /\ last.kind = "session"
    /\ UserId(session) = "B"
    /\ \E r \in BagToSet(inflight) :
           r.op = "select" /\ r.stage = "sent" /\ r.user = "B"
    /\ \E r \in BagToSet(inflight) : r.op = "insert" /\ r.user = "A"

\* C15: when the provider's sign-out succeeds the session becomes none and
\* the local list becomes empty; when it fails the session and the list
\* are unchanged.
C15_SignOutClears ==
    [][/\ last'.kind = "signOutOk" =>
              (session' = NullSession /\ tasks' = <<>>)
       /\ last'.kind = "signOutErr" =>
              (session' = session /\ tasks' = tasks)]_vars

\* C16: when the provider reports the one-time link sent, the link-sent
\* flag becomes true and the session is untouched (none stays none); when
\* it returns an error the flag and the session are unchanged.
C16_LinkSentFlag ==
    [][/\ last'.kind = "otpOk" => (otpSent' /\ session' = session)
       /\ last'.kind = "otpErr" =>
              (otpSent' = otpSent /\ session' = session)]_vars

C16_Witness ==
    /\ last.kind = "otpOk"
    /\ otpSent
    /\ session = NullSession
====
